---- MODULE Spec2Model ----
(***************************************************************************)
(* GreeterContract (contract/assembly/index.ts): a NEAR singleton contract *)
(* holding a per-account greeting and a shared default greeting, plus the  *)
(* exported function ping that keeps a u16 counter in storage.             *)
(*                                                                         *)
(* One action is one external invocation, run to completion: the contract  *)
(* object is loaded from the persisted record, the method runs on it, and  *)
(* the object is written back when the method is the constructor or is     *)
(* decorated with @mutateState and reaches its end.                        *)
(***************************************************************************)
EXTENDS Integers, Sequences, FiniteSets, TLC

\* ---------------------------------------------------------------- bounds
\* ping invocations explored from each starting count
MaxPings == 3
\* a deployment that has already been pinged this many times
HighPings == 65534

\* ------------------------------------------------------------- constants
DEFAULT_GREETING == "Hello"
U16Modulus == 65536

AccountId == {"alice", "bob"}
Messages == {"", "hi", "Hey"}

Omitted == "<omitted>"
Undefined == "<undefined>"
Absent == <<>>
NoAccount == "<no account>"
Void == "<void>"
NotInitialized ==
  "Contract must be initialized with 'new' method before this function can be called"

\* ------------------------------------------------------------ the Map type
EmptyMap == [k \in {} |-> ""]
MapHas(m, k) == k \in DOMAIN m
MapGet(m, k) == m[k]
MapSet(m, k, v) == [x \in (DOMAIN m) \cup {k} |-> IF x = k THEN v ELSE m[x]]

\* --------------------------------------------------------- GreeterContract
\* the object before the constructor body has run: the field initializers
FieldInit ==
  [account_greetings |-> EmptyMap, isInit |-> FALSE, default_greeting |-> Undefined]

constructor_forgetsInit(default_greeting) ==
  [account_greetings |-> EmptyMap,
   isInit |-> FALSE,
   default_greeting |-> IF default_greeting = Omitted THEN DEFAULT_GREETING
                        ELSE default_greeting]

constructor_ignoresArgument(default_greeting) ==
  [account_greetings |-> EmptyMap,
   isInit |-> TRUE,
   default_greeting |-> DEFAULT_GREETING]

constructor(default_greeting) ==
  [account_greetings |-> EmptyMap,
   isInit |-> TRUE,
   default_greeting |-> IF default_greeting = Omitted THEN DEFAULT_GREETING
                        ELSE default_greeting]

assertInit_alwaysPasses(self) == TRUE

\* assert(this.isInit, ...): TRUE when the assertion passes
assertInit(self) == self.isInit

\* a failed assertion aborts the invocation
Abort(self) == [ok |-> FALSE, self |-> self, ret |-> NotInitialized]
Return(self, value) == [ok |-> TRUE, self |-> self, ret |-> value]

getGreeting_cachesDefault(self, accountId) ==
  IF ~assertInit(self) THEN Abort(self)
  ELSE IF MapHas(self.account_greetings, accountId)
       THEN Return(self, MapGet(self.account_greetings, accountId))
       ELSE Return([self EXCEPT !.account_greetings =
                                  MapSet(@, accountId, self.default_greeting)],
                   self.default_greeting)

getGreeting_alwaysDefault(self, accountId) ==
  IF ~assertInit(self) THEN Abort(self)
  ELSE Return(self, self.default_greeting)

getGreeting(self, accountId) ==
  IF ~assertInit(self) THEN Abort(self)
  ELSE IF MapHas(self.account_greetings, accountId)
       THEN Return(self, MapGet(self.account_greetings, accountId))
       ELSE Return(self, self.default_greeting)

setGreeting_replacesMap(self, sender, message) ==
  IF ~assertInit(self) THEN Abort(self)
  ELSE Return([self EXCEPT !.account_greetings = MapSet(EmptyMap, sender, message)], Void)

setGreeting_fixedKey(self, sender, message) ==
  IF ~assertInit(self) THEN Abort(self)
  ELSE Return([self EXCEPT !.account_greetings = MapSet(@, "alice", message)], Void)

setGreeting_emptyDeletes(self, sender, message) ==
  IF ~assertInit(self) THEN Abort(self)
  ELSE IF message = ""
       THEN Return([self EXCEPT !.account_greetings =
                                  [x \in (DOMAIN @) \ {sender} |-> @[x]]], Void)
       ELSE Return([self EXCEPT !.account_greetings = MapSet(@, sender, message)], Void)

setGreeting_keepsFirst(self, sender, message) ==
  IF ~assertInit(self) THEN Abort(self)
  ELSE IF MapHas(self.account_greetings, sender) THEN Return(self, Void)
  ELSE Return([self EXCEPT !.account_greetings = MapSet(@, sender, message)], Void)

setGreeting(self, sender, message) ==
  IF ~assertInit(self) THEN Abort(self)
  ELSE Return([self EXCEPT !.account_greetings = MapSet(@, sender, message)], Void)

internalChangeDefault(self, message) ==
  [self EXCEPT !.default_greeting = message]

changeDefault(self, message) ==
  IF ~assertInit(self) THEN Abort(self)
  ELSE Return(internalChangeDefault(self, message), Void)

\* @mutateState(): the record left in storage by an externally invoked,
\* decorated method; an aborted invocation never reaches the end of the method
mutateState(loaded, r) == IF r.ok THEN r.self ELSE loaded

\* -------------------------------------------------------------------- ping
getPrimitive(stored, defaultValue) ==
  IF stored = Absent THEN defaultValue ELSE stored[1]
increment_unbounded(c) == c + 1

increment(c) == (c + 1) % U16Modulus

Digits == <<"0", "1", "2", "3", "4", "5", "6", "7", "8", "9">>
RECURSIVE toString(_)
toString(n) ==
  IF n < 10 THEN Digits[n + 1]
  ELSE toString(n \div 10) \o Digits[(n % 10) + 1]

pong(c) == "pong: " \o toString(c)

\* ------------------------------------------------------------------- state
VARIABLES
  state,    \* the persisted contract record
  counter,  \* the persisted "counter" record, Absent until the first ping
  call,     \* the last invocation: operation, arguments, outcome, and the
            \* contract object as the method left it
  pings,    \* number of ping invocations since the counter was absent
  twin,     \* the persisted record had the marked setGreeting not been made
  marked    \* the earlier setGreeting the twin has skipped: its account and
            \* message, and whether the same account has since set again

vars == <<state, counter, call, pings, twin, marked>>

Unmarked == [account |-> NoAccount, message |-> Omitted, resolved |-> FALSE]

Invocation(op, sender, arg, r) ==
  [op |-> op, sender |-> sender, arg |-> arg,
   ok |-> r.ok, ret |-> r.ret, contract |-> r.self]

Init ==
  /\ state = FieldInit
  /\ twin = FieldInit
  /\ marked = Unmarked
  /\ \/ counter = Absent /\ pings = 0
     \/ counter = <<HighPings>> /\ pings = HighPings
  /\ call = Invocation("deploy", NoAccount, Omitted, Return(FieldInit, Void))

\* new: the constructor runs on a fresh object, which is then persisted
New ==
  \E d \in Messages \cup {Omitted} :
    LET r == Return(constructor(d), Void) IN
    /\ state' = r.self
    /\ twin' = r.self
    /\ call' = Invocation("new", NoAccount, d, r)
    /\ UNCHANGED <<counter, pings, marked>>

\* getGreeting: not decorated, nothing is written
GetGreeting ==
  \E a \in AccountId :
    LET r == getGreeting(state, a) IN
    /\ call' = Invocation("getGreeting", NoAccount, a, r)
    /\ UNCHANGED <<state, counter, pings, twin, marked>>

\* the map entry is written and persisted before the initialization check
SetGreeting_writesBeforeAssert ==
  \E a \in AccountId, m \in Messages :
    LET w == [state EXCEPT !.account_greetings = MapSet(@, a, m)]
        r == IF ~assertInit(w) THEN Abort(w) ELSE Return(w, Void)
    IN
    /\ state' = w
    /\ twin' = w
    /\ call' = Invocation("setGreeting", a, m, r)
    /\ UNCHANGED <<counter, pings, marked>>

\* setGreeting: decorated with @mutateState
SetGreeting ==
  \E a \in AccountId, m \in Messages, skip \in BOOLEAN :
    LET r == setGreeting(state, a, m) IN
    /\ state' = mutateState(state, r)
    /\ call' = Invocation("setGreeting", a, m, r)
    /\ IF skip /\ marked = Unmarked /\ r.ok
       THEN /\ marked' = [account |-> a, message |-> m, resolved |-> FALSE]
            /\ twin' = twin
       ELSE /\ marked' = IF marked.account = a /\ r.ok
                         THEN [marked EXCEPT !.resolved = TRUE]
                         ELSE marked
            /\ twin' = mutateState(twin, setGreeting(twin, a, m))
    /\ UNCHANGED <<counter, pings>>

\* changeDefault: not decorated; the decorated internalChangeDefault is
\* invoked internally, so the object it changed is not written back
ChangeDefault ==
  \E m \in Messages :
    LET r == changeDefault(state, m) IN
    /\ call' = Invocation("changeDefault", NoAccount, m, r)
    /\ UNCHANGED <<state, counter, pings, twin, marked>>

\* ping guarded by the contract's initialization check
Ping_requiresInit ==
  /\ \/ pings < MaxPings
     \/ pings >= HighPings /\ pings < HighPings + MaxPings
  /\ IF ~assertInit(state)
     THEN /\ call' = Invocation("ping", NoAccount, Omitted, Abort(state))
          /\ UNCHANGED <<counter, pings>>
     ELSE LET c == increment(getPrimitive(counter, 0)) IN
          /\ counter' = <<c>>
          /\ pings' = pings + 1
          /\ call' = Invocation("ping", NoAccount, Omitted,
                                Return(state, pong(c)))
  /\ UNCHANGED <<state, twin, marked>>

Ping ==
  /\ \/ pings < MaxPings
     \/ pings >= HighPings /\ pings < HighPings + MaxPings
  /\ LET c == increment(getPrimitive(counter, 0)) IN
     /\ counter' = <<c>>
     /\ call' = Invocation("ping", NoAccount, Omitted,
                           Return(state, pong(c)))
  /\ pings' = pings + 1
  /\ UNCHANGED <<state, twin, marked>>

Next == New \/ GetGreeting \/ SetGreeting \/ ChangeDefault \/ Ping

Spec == Init /\ [][Next]_vars


\* ------------------------------------------------------------- properties
Observed(self, accountId) ==
  LET r == getGreeting(self, accountId) IN [ok |-> r.ok, ret |-> r.ret]

Mutating == {"setGreeting", "changeDefault"}
Gated == {"getGreeting", "setGreeting", "changeDefault"}

\* C1: on an initialized registry getGreeting(A) returns greetings[A] when A
\* has an entry and the default greeting otherwise; right after construction
\* with default D every identity reads D.
C1_DefaultFallback ==
  /\ [][(call'.op = "getGreeting" /\ state.isInit) =>
          /\ call'.ok
          /\ call'.ret = IF call'.arg \in DOMAIN state.account_greetings
                         THEN state.account_greetings[call'.arg]
                         ELSE state.default_greeting]_vars
  /\ [](call.op = "new" =>
          \A A \in AccountId :
            Observed(state, A) =
              [ok |-> TRUE,
               ret |-> IF call.arg = Omitted THEN "Hello" ELSE call.arg])

C1_Witness ==
  /\ call.op = "getGreeting" /\ call.ok
  /\ ~MapHas(state.account_greetings, call.arg)
  /\ call.ret = state.default_greeting
  /\ \E B \in DOMAIN state.account_greetings :
       state.account_greetings[B] # state.default_greeting

\* C2: after a successful setGreeting(M) by caller A, getGreeting(A) = M
\* whatever the default is, and getGreeting(B) is as before for every B # A.
C2_OverrideShadowing ==
  [][(call'.op = "setGreeting" /\ call'.ok) =>
       /\ Observed(state', call'.sender) = [ok |-> TRUE, ret |-> call'.arg]
       /\ \A B \in AccountId \ {call'.sender} :
            Observed(state', B) = Observed(state, B)]_vars

C2_Witness ==
  /\ call.op = "setGreeting" /\ call.ok
  /\ Observed(state, call.sender).ret = call.arg
  /\ call.arg # state.default_greeting
  /\ \E B \in AccountId \ {call.sender} :
       /\ MapHas(state.account_greetings, B)
       /\ state.account_greetings[B] # call.arg

\* C3: every successful setGreeting or changeDefault invocation leaves the
\* persisted record equal to the contract object as the method left it.
C3_CommitAfterMutation ==
  [][(call'.op \in Mutating /\ call'.ok) => state' = call'.contract]_vars

\* C4: after a successful changeDefault(D2), getGreeting(X) = D2 for every X
\* without an override, getGreeting(Y) is unchanged for every Y with one, and
\* the greetings map is not modified.
C4_DefaultMutationScope ==
  [][(call'.op = "changeDefault" /\ call'.ok) =>
       /\ state'.account_greetings = state.account_greetings
       /\ \A X \in AccountId :
            IF MapHas(state.account_greetings, X)
            THEN Observed(state', X) = Observed(state, X)
            ELSE Observed(state', X) = [ok |-> TRUE, ret |-> call'.arg]]_vars

\* C5: getGreeting, setGreeting and changeDefault fail with the
\* not-initialized error, leaving everything as it was, when isInit is false,
\* and succeed when it is true.
C5_InitializationGate ==
  [][call'.op \in Gated =>
       IF state.isInit
       THEN call'.ok
       ELSE /\ ~call'.ok
            /\ call'.ret = NotInitialized
            /\ call'.contract = state
            /\ state' = state
            /\ counter' = counter]_vars

C5_Witness ==
  /\ call.op = "setGreeting" /\ ~call.ok
  /\ call.ret = NotInitialized
  /\ state = FieldInit

\* C6: the k-th ping since the counter was absent returns "pong: k" and
\* stores a counter exactly one above the previous one.
C6_PingMonotonicity ==
  [][call'.op = "ping" =>
       /\ call'.ret = pong(pings')
       /\ counter'[1] = getPrimitive(counter, 0) + 1]_vars

\* C7: a failed setGreeting or changeDefault leaves the persisted record
\* exactly as it was.
C7_CommitOrNothing ==
  [][(call'.op \in Mutating /\ ~call'.ok) => state' = state]_vars

C7_Witness ==
  /\ call.op = "changeDefault" /\ ~call.ok
  /\ call.arg = "hi"
  /\ call.contract = FieldInit
  /\ state = FieldInit

\* C8: after setGreeting(M1) and then setGreeting(M2) by the same caller A,
\* with any invocations in between, getGreeting(A) = M2 and the persisted
\* record is the one reached had setGreeting(M1) never been made.
C8_OverwriteNoHistory ==
  [][(call'.op = "setGreeting" /\ call'.ok /\ marked.account = call'.sender) =>
       /\ Observed(state', call'.sender) = [ok |-> TRUE, ret |-> call'.arg]
       /\ state' = twin']_vars

C8_Witness ==
  /\ marked.resolved
  /\ call.op = "setGreeting" /\ call.ok
  /\ call.sender = marked.account
  /\ call.arg # marked.message
  /\ state.account_greetings[call.sender] = call.arg
  /\ state = twin
  /\ \E B \in AccountId \ {call.sender} : MapHas(state.account_greetings, B)

\* C9: after new(d) the contract is initialized, has no greetings, and its
\* default greeting is d, or "Hello" when the argument is omitted.
C9_ConstructionPostcondition ==
  call.op = "new" =>
    /\ call.ok
    /\ state.isInit
    /\ state.account_greetings = EmptyMap
    /\ state.default_greeting = IF call.arg = Omitted THEN "Hello" ELSE call.arg

C9_Witness ==
  /\ call.op = "new" /\ call.arg = "hi"
  /\ state.isInit /\ state.default_greeting = "hi"

\* C10: once the contract is initialized, a second new fails and never
\* replaces the default greeting or discards the stored greetings.
C10_ConstructOnce ==
  [][(call'.op = "new" /\ state.isInit) =>
       /\ ~call'.ok
       /\ state' = state]_vars

\* C11: once the contract is constructed its default greeting is neither
\* empty nor undefined.
C11_DefaultNeverEmpty ==
  state.isInit => state.default_greeting \notin {"", Undefined}

\* C12: a getGreeting invocation, successful or failed, leaves the contract
\* object, the persisted record and the ping counter as they were.
C12_GetGreetingPure ==
  [][call'.op = "getGreeting" =>
       /\ call'.contract = state
       /\ state' = state
       /\ counter' = counter]_vars

C12_Witness ==
  /\ call.op = "getGreeting" /\ call.ok
  /\ call.contract = state
  /\ counter # Absent
  /\ call.ret = state.default_greeting
  /\ state.account_greetings # EmptyMap

\* C13: ping succeeds whether or not the contract is initialized and changes
\* the counter record only; no contract method changes the counter.
C13_PingIndependent ==
  [][/\ call'.op = "ping" =>
          /\ call'.ok
          /\ counter' # counter
          /\ state' = state
     /\ call'.op \in {"new", "getGreeting", "setGreeting", "changeDefault"} =>
          counter' = counter]_vars

C13_Witness ==
  /\ call.op = "ping" /\ call.ok
  /\ ~state.isInit
  /\ counter = <<1>>

\* C14: an entry greetings[X] is created or given a new value only by a
\* setGreeting whose sender is X, and a setGreeting by A leaves every other
\* entry, the default greeting and isInit unchanged.
C14_WritesOwnEntryOnly ==
  [][/\ \A X \in DOMAIN state'.account_greetings :
          (\/ X \notin DOMAIN state.account_greetings
           \/ state'.account_greetings[X] # state.account_greetings[X])
          => (call'.op = "setGreeting" /\ call'.sender = X)
     /\ call'.op = "setGreeting" =>
          /\ \A B \in AccountId \ {call'.sender} :
               /\ (B \in DOMAIN state'.account_greetings)
                    = (B \in DOMAIN state.account_greetings)
               /\ B \in DOMAIN state.account_greetings =>
                    state'.account_greetings[B] = state.account_greetings[B]
          /\ state'.default_greeting = state.default_greeting
          /\ state'.isInit = state.isInit]_vars

C14_Witness ==
  /\ call.op = "setGreeting" /\ call.ok
  /\ call.sender = "bob"
  /\ DOMAIN state.account_greetings = {"alice", "bob"}
  /\ state.account_greetings["bob"] = call.arg
  /\ state.account_greetings["alice"] # call.arg

\* C15: the stored counter is always a u16, and each ping stores and reports
\* (previous + 1) mod 2^16, with previous = 0 when the record is absent.
C15_CounterIsU16 ==
  /\ [](counter = Absent \/ counter[1] \in 0 .. 65535)
  /\ [][call'.op = "ping" =>
          LET previous == IF counter = Absent THEN 0 ELSE counter[1]
              next == (previous + 1) % 65536
          IN /\ counter' = <<next>>
             /\ call'.ret = "pong: " \o toString(next)]_vars

C15_Witness ==
  /\ call.op = "ping"
  /\ pings = 65536
  /\ counter = <<0>>
  /\ call.ret = "pong: 0"

\* C16: getGreeting, setGreeting, changeDefault and ping never remove an
\* entry of greetings, so an account with an override keeps reading one.
C16_OverridesNeverRemoved ==
  [][call'.op \in {"getGreeting", "setGreeting", "changeDefault", "ping"} =>
       \A A \in DOMAIN state.account_greetings :
         /\ A \in DOMAIN state'.account_greetings
         /\ Observed(state', A).ret = state'.account_greetings[A]]_vars

C16_Witness ==
  /\ call.op = "setGreeting" /\ call.ok
  /\ call.sender = "alice" /\ call.arg = ""
  /\ DOMAIN state.account_greetings = {"alice", "bob"}

\* C17: isInit is false only in the never-constructed record, every new sets
\* it, and no invocation sets it back to false.
C17_InitMonotone ==
  /\ [](~state.isInit => state = FieldInit)
  /\ [][/\ call'.op = "new" => state'.isInit
        /\ state.isInit => (state'.isInit /\ call'.contract.isInit)]_vars

C17_Witness ==
  /\ state.isInit
  /\ call.op = "changeDefault" /\ call.ok
  /\ call.contract.isInit
  /\ call.contract # state
====
